---- MODULE Spec2Model ----
(***************************************************************************)
(* Model of the task queue engine of firebase-lti                          *)
(* (functions/lib/database/queue.js, cancellation-token version):          *)
(* create(), Context, Worker, Cleaner and nextChange(), running against a  *)
(* store of task nodes that a producer fills.                              *)
(*                                                                         *)
(* One action is one run-to-completion step of the JavaScript event loop:  *)
(* a store event, a settled store write, a settled processor call, a       *)
(* timer, or an external cancel(), together with the promise continuations *)
(* (microtasks) that the code chains onto it without further suspension.   *)
(* The clock counts minutes.                                               *)
(***************************************************************************)
EXTENDS Integers, Sequences, FiniteSets, TLC

\* ---------------------------------------------------------------- bounds
MaxSize == 2        \* largest options.size tried
MaxTasks == 1       \* task keys the producer pushes in one run
MaxTime == 2        \* last value of the clock
MaxDelay == 2       \* longest delay given to a timer or a timed source

\* ------------------------------------------------------ program constants
RETRY_TIMEOUT == 1  \* 60 * 1000 ms

NoTime == -1        \* startedAt: null
NoKey == 0          \* no snapshot
CleanerId == 0      \* the Cleaner's uuid; Workers are 1..MaxWorkers

\* A Worker's uuid is only ever a key of the Context's maps, and leave() deletes
\* it: a Worker that left and a Worker not yet created are the same state
\* ("none"), and a new Worker takes the first unused identity.  There is one
\* identity more than the largest size, so that a pool can outgrow its size.
MaxWorkers == MaxSize + 1
WorkerIds == 1..MaxWorkers
Keys == 1..MaxTasks

VARIABLES
  size,             \* options.size
  tasks,            \* store: key -> <<>> (no node) or <<node>>
  nextKey,          \* next key the producer pushes
  now,              \* Date.now() / server time
  callerCancelled,  \* options.cancelToken.cancellationRequested
  cancelled,        \* cancelable.token.cancellationRequested
  pool,             \* Context._pool (Map id -> true)
  idle,             \* Context._idle (Map id -> boolean)
  listeners,        \* Context._listeners
  frozen,           \* Context._listeners is the frozen array of broadcast()
  wpc,              \* where each Worker is suspended ("none": no such Worker)
  wsnap,            \* key of the snapshot a Worker is working on
  wlog,             \* what a Worker did for its current snapshot, in order
  wfailed,          \* key whose processor last failed for the Worker, until reset
  cpc,              \* where the Cleaner is suspended
  csnap,            \* key of the snapshot the Cleaner plans to reset
  cstartedAt,       \* startedAt of that snapshot
  cdeadline,        \* expiry of the Cleaner's retry timer
  txData,           \* value the running transaction last ran its handler on
  clog,             \* outcome of the Cleaner's last transaction
  resolved,         \* how many times the promise of closed() was resolved
  rtimer,           \* the Cleaner's promise.timer: setTimeout pending, token callback kept
  leaks,            \* what _nextTask calls that returned have left active
  notes,            \* notifications the scale-up handler got in the last step
  log,              \* what the last step called and how its _nextTask calls returned
  linkedCancelled,  \* a token that sources are linked to: cancellationRequested
  source,           \* a TimedTokenSource: its state and its setTimeout
  ptimer,           \* a promise.timer call: its promise, setTimeout and registration
  job,              \* the _process calls of a Worker: processor call, job source
  ref,              \* a node under reset transactions: first and current value
  provider          \* db.ref('provider'): launches' users, outcomes/queue, push calls

vars == <<size, tasks, nextKey, now, callerCancelled, cancelled, pool, idle,
          listeners, frozen, wpc, wsnap, wlog, wfailed, cpc, csnap, cstartedAt,
          cdeadline, txData, clog, resolved, rtimer, leaks, notes, log,
          linkedCancelled, source, ptimer, job, ref, provider>>

\* the state of the parts that are run on their own, outside a pool
UnitVars == <<linkedCancelled, source, ptimer, job, ref, provider>>

\* what no step of a pool changes: its options, and the parts run on their own
Fixed == <<size, UnitVars>>

\* ------------------------------------------------------------ task nodes
Node(started, startedAt, payload) ==
  [started |-> started, startedAt |-> startedAt, payload |-> payload]

NewTask == Node(FALSE, NoTime, "data")

Exists(k) == tasks[k] # <<>>

\* no node under test
RefNone == [before |-> <<>>, data |-> <<>>, runs |-> 0]

\* ------------------------------------------------- outcomes of launches
\* The subjects (consumerKey, linkId, userId) and the task ids uuid() gives
MaxSubjects == 2
MaxIds == 2
MaxPushers == 2
Subjects == 1..MaxSubjects
Pushers == 1..MaxPushers
TaskIds == 1..MaxIds
NoTask == 0
NoGrade == -1
Zombie == -1
Grades == {100}

\* launches/<consumerKey>/<linkId>/users/<userId>; null if it has no field
User(sourceDid, grade, outcomeTask) ==
  [sourceDid |-> sourceDid, grade |-> grade, outcomeTask |-> outcomeTask]
UserNull(u) == ~u.sourceDid /\ u.grade = NoGrade /\ u.outcomeTask = NoTask

\* a push call: idle, or holding what outcomes.task() gave it ("task")
PushIdle == [pc |-> "idle", subject |-> 0, grade |-> NoGrade, prev |-> NoTask, task |-> FALSE]

\* nothing launched: no user, an empty outcomes/queue (for an id: no node
\* (NoTask), the subject of its task, or a node without subject (Zombie)), no
\* task made (made: the subject of the task of each id given so far), no push
\* under way, no push overlapped another for its subject, no request() call
ProviderNone ==
  [users |-> [s \in Subjects |-> User(FALSE, NoGrade, NoTask)],
   queue |-> [t \in TaskIds |-> NoTask],
   made |-> <<>>,
   push |-> [p \in Pushers |-> PushIdle],
   raced |-> [s \in Subjects |-> FALSE],
   last |-> [taskId |-> NoTask, subject |-> 0, request |-> FALSE]]

\* a claim that tests the node: it leaves a started task as it is
ClaimUpdateIfUnclaimed(data, t) ==
  IF data = <<>>
    THEN <<Node(TRUE, t, "none")>>
    ELSE IF data[1].started
           THEN data
           ELSE <<[data[1] EXCEPT !.started = TRUE, !.startedAt = t]>>

\* ref.update({started: true, startedAt: TIMESTAMP}) on a node value
ClaimUpdate(data, t) ==
  IF data = <<>>
    THEN <<Node(TRUE, t, "none")>>
    ELSE <<[data[1] EXCEPT !.started = TRUE, !.startedAt = t]>>

\* faulty handlers of the reset transaction: one that writes a node where
\* there was none, one that keeps the claim's timestamp
ResetHandlerResurrects(data) ==
  IF data = <<>>
    THEN <<Node(FALSE, NoTime, "none")>>
    ELSE <<[data[1] EXCEPT !.started = FALSE, !.startedAt = NoTime]>>

ResetHandlerKeepsStartedAt(data) ==
  IF data = <<>>
    THEN <<>>
    ELSE <<[data[1] EXCEPT !.started = FALSE]>>

\* a handler that writes a node of its own
ResetHandlerDropsPayload(data) ==
  IF data = <<>> THEN <<>> ELSE <<Node(FALSE, NoTime, "none")>>

\* the transaction handler of _doResetTask
ResetHandler(data) ==
  IF data = <<>>
    THEN <<>>
    ELSE <<[data[1] EXCEPT !.started = FALSE, !.startedAt = NoTime]>>

\* query orderByChild('started').equalTo(false).limitToFirst(1)
Unclaimed == {k \in Keys : Exists(k) /\ tasks[k][1].started = FALSE}
FirstUnclaimed == CHOOSE k \in Unclaimed : \A j \in Unclaimed : k <= j

\* query orderByChild('startedAt').startAt(0).limitToFirst(1)
Started == {k \in Keys : Exists(k) /\ tasks[k][1].startedAt >= 0}
FirstStarted ==
  CHOOSE k \in Started : \A j \in Started :
    \/ tasks[k][1].startedAt < tasks[j][1].startedAt
    \/ tasks[k][1].startedAt = tasks[j][1].startedAt /\ k <= j


\* ------------------------------------------------------------- Context
MapSet(m, k, v) == [x \in (DOMAIN m) \cup {k} |-> IF x = k THEN v ELSE m[x]]
MapDelete(m, k) == [x \in (DOMAIN m) \ {k} |-> m[x]]
CountTrue(m) == Cardinality({x \in DOMAIN m : m[x] = TRUE})

\* What a step's synchronous code and continuations read and write: the
\* Context, the pool's token, the Workers and the Cleaner, the closed() promise
Ctx ==
  [pool |-> pool, idle |-> idle, listeners |-> listeners, frozen |-> frozen,
   cancelled |-> cancelled,
   wpc |-> wpc, cpc |-> cpc, resolved |-> resolved,
   rtimer |-> rtimer, leaks |-> leaks,
   notes |-> <<>>, log |-> <<>>, spawned |-> 0, overflow |-> FALSE]

\* one entry of the step's log: a call of the Context by id ("enter",
\* "waiting", "working", "leave"), or what nextChange did for id: "listen"
\* (q.on), "snapshot", "void" and "rejected" (how its promise settled)
Event(c, op, id) == [c EXCEPT !.log = Append(@, [op |-> op, id |-> id])]

\* ------------------------------------------------ nextChange and timer
\* What one _nextTask call holds: the store listener of q.on, the registration
\* on its token, and the setTimeout of the Worker's idle TimedTokenSource
\* (the Cleaner passes the pool's token and has no idle timer)
Held(listener, registration, idleTimer) ==
  [listener |-> listener, registration |-> registration, idleTimer |-> idleTimer]

\* nextChange on a token that is cancelled at the call registers nothing
NextChangeClosed(timed) == Held(FALSE, FALSE, timed)
\* else: token.register(onCancel), q.on(eventType, onChange, onError)
NextChangeOpen(timed) == Held(TRUE, TRUE, timed)
\* onChange: registration.unregister(), resolve(snapshot)
OnChange(h) == [h EXCEPT !.registration = FALSE]
\* onError: the store has cancelled the listener; registration.unregister()
OnError(h) == [h EXCEPT !.listener = FALSE, !.registration = FALSE]
\* onCancel: the token ran its registrations; q.off(eventType, onChange)
OnCancel(h) == [h EXCEPT !.listener = FALSE, !.registration = FALSE]
\* the finally of Worker._nextTask: timer.close() clears the setTimeout
TimerClose(h) == [h EXCEPT !.idleTimer = FALSE]

\* what a _nextTask call of id still holds after it returned: how is
\* "snapshot", "rejected", "void" (its token was cancelled while it waited) or
\* "closed" (its token was cancelled at the call)
HeldAfter(how, id) ==
  LET timed == id # CleanerId
      h == CASE how = "closed" -> NextChangeClosed(timed)
             [] how = "snapshot" -> OnChange(NextChangeOpen(timed))
             [] how = "rejected" -> OnError(NextChangeOpen(timed))
             [] OTHER -> OnCancel(NextChangeOpen(timed))
  IN  IF timed THEN TimerClose(h) ELSE h

Live(h) == {r \in DOMAIN h : h[r]}

\* _nextTask of id returns
Return(c, how, id) ==
  [Event(c, IF how = "closed" THEN "void" ELSE how, id)
     EXCEPT !.leaks = @ \cup Live(HeldAfter(how, id))]

\* promise.timer(delay, token), the token not cancelled: setTimeout(onTime),
\* token.register(onCancel)
TimerIdle == [armed |-> FALSE, registered |-> FALSE]
TimerStart == [armed |-> TRUE, registered |-> TRUE]
\* onTime: registration.unregister(), resolve()
TimerOnTime(t) == [t EXCEPT !.armed = FALSE, !.registered = FALSE]

\* an onCancel that rejects without clearTimeout
TimerOnCancelKeeps(t) == [t EXCEPT !.registered = FALSE]

\* onCancel: clearTimeout(timer), reject(Cancelled)
TimerOnCancel(t) == [t EXCEPT !.armed = FALSE, !.registered = FALSE]

\* ------------------------------------------- token sources, promise.timer
\* a source of prex: cancel() and close() act on an open source only, so that
\* a cancellation is permanent and a closed source is never cancelled
SuperCancel(s) == [s EXCEPT !.state = IF @ = "open" THEN "cancelled" ELSE @]
SuperClose(s) == [s EXCEPT !.state = IF @ = "open" THEN "closed" ELSE @]

\* no TimedTokenSource yet
SourceNone == [state |-> "none", timer |-> FALSE, due |-> NoTime]

\* new TimedTokenSource(delay, [linked]) at time t: super(linkedTokens), which
\* gives a cancelled source if a linked token is cancelled, then setTimeout
TimedTokenSource(delay, linked, t) ==
  [state |-> IF linked THEN "cancelled" ELSE "open", timer |-> TRUE, due |-> t + delay]

\* the callback of the setTimeout: super.cancel()
SourceOnTime(s) == SuperCancel([s EXCEPT !.timer = FALSE])
\* cancel(): clearTimeout(this._timer), super.cancel()
SourceCancel(s) == SuperCancel([s EXCEPT !.timer = FALSE])

\* a close() that leaves the source's setTimeout set
SourceCloseKeepsTimer(s) == SuperClose(s)

\* close(): clearTimeout(this._timer), super.close()
SourceClose(s) == SuperClose([s EXCEPT !.timer = FALSE])

\* token.cancellationRequested of the source's token (Token.none if no source)
Requested(s) == s.state = "cancelled"

\* a promise settles once: resolve() and reject() of a settled promise do nothing
PromiseSettle(p, how) == IF p = "pending" THEN how ELSE p

\* no promise.timer call yet
TimedNone == [promise |-> "none", t |-> TimerIdle, due |-> NoTime, calls |-> 0]

\* no _process call yet: calls of the processor, its last arguments (key,
\* payload, the source whose token it got), sources constructed, close() calls,
\* where the processor's promise is, and the Worker around it: remove() calls,
\* calls of _run after an attempt, and where its chain is
JobNone ==
  [calls |-> 0, key |-> NoKey, payload |-> "none", token |-> 0, sources |-> 0,
   closes |-> 0, state |-> "none", removes |-> 0, polls |-> 0, run |-> "none"]

\* onTime of promise.timer: registration.unregister(), resolve()
TimedOnTime(x) ==
  [x EXCEPT !.t = TimerOnTime(@), !.promise = PromiseSettle(@, "resolved"),
            !.calls = @ + 1]

\* an onCancel that clears the timeout and does not reject
TimedOnCancelSilent(x) == [x EXCEPT !.t = TimerOnCancel(@)]

\* onCancel of promise.timer: clearTimeout(timer), reject(Cancelled)
TimedOnCancel(x) ==
  [x EXCEPT !.t = TimerOnCancel(@), !.promise = PromiseSettle(@, "rejected"),
            !.calls = @ + 1]

\* promise.timer(delay, token) called at time t: reject() at once if the token
\* is cancelled, with no return; then setTimeout and token.register(onCancel),
\* and a cancelled token runs the callback it is given at once
TimerCall(delay, requested, t) ==
  LET x == [promise |-> IF requested THEN PromiseSettle("pending", "rejected")
                                     ELSE "pending",
            t |-> TimerStart, due |-> t + delay,
            calls |-> IF requested THEN 1 ELSE 0]
  IN  IF requested THEN TimedOnCancel(x) ELSE x

\* the callbacks registered on the source's token run when it is cancelled
RunCallbacks(x) == IF x.t.registered THEN TimedOnCancel(x) ELSE x

SizeOf(c) == [pool |-> CountTrue(c.pool), idle |-> CountTrue(c.idle)]
HasWorker(c) == SizeOf(c).pool > 0
IsActive(c) == SizeOf(c).pool > 0 /\ SizeOf(c).idle < SizeOf(c).pool
IsClosed(c) == c.cancelled /\ ~HasWorker(c)

Enter(c, id) ==
  [Event(c, "enter", id) EXCEPT !.pool = MapSet(@, id, TRUE), !.idle = MapSet(@, id, TRUE)]

\* a leave that forgets the id's idle entry
LeaveKeepsIdle(c, id) ==
  [Event(c, "leave", id) EXCEPT !.pool = MapDelete(@, id)]

Leave(c, id) ==
  [Event(c, "leave", id) EXCEPT !.pool = MapDelete(@, id), !.idle = MapDelete(@, id)]
Waiting(c, id) ==
  [Event(c, "waiting", id) EXCEPT !.pool = MapSet(@, id, TRUE), !.idle = MapSet(@, id, TRUE)]
Working(c, id) ==
  [Event(c, "working", id) EXCEPT !.pool = MapSet(@, id, TRUE), !.idle = MapSet(@, id, FALSE)]

\* faulty scale-up tests: one that admits a Worker when the pool is full, one
\* that does not look at the pool's size, one that only adds to a pool that
\* has a Worker
ScaleRuleLooser(sz) == sz.idle < 1 /\ sz.pool <= size

ScaleRuleNeedsWorker(sz) == sz.idle < 1 /\ sz.pool < size /\ sz.pool > 0

ScaleRuleIgnoresSize(sz) == sz.idle < 1

\* the test of the handler that create() subscribes
ScaleRule(sz) == sz.idle < 1 /\ sz.pool < size

Unsubscribe(ls, h) == SelectSeq(ls, LAMBDA x : x # h)

\* subscribe(handler): nothing is registered once isClosed() holds, and the
\* push on the array that broadcast() froze throws
Subscribe(c, h) ==
  IF IsClosed(c) \/ c.frozen THEN c ELSE [c EXCEPT !.listeners = Append(@, h)]

\* closed(): resolved at once if isClosed() holds, else a handler is subscribed
\* that resolves when it is called and isClosed() holds
Closed(c) ==
  IF IsClosed(c) THEN [c EXCEPT !.resolved = @ + 1] ELSE Subscribe(c, "closed")

RECURSIVE Broadcast(_)
RECURSIVE RunListeners(_, _, _)
RECURSIVE AddWorker(_)
RECURSIVE Poll(_, _)
RECURSIVE LeavePolling(_, _)

\* the finally of Worker.start: leave(id)
WorkerStop(c, w) == Broadcast(Leave([c EXCEPT !.wpc[w] = "none"], w))

\* a nextChange without the test of cancellationRequested: it registers its
\* listener on a token that is cancelled already
PollListens(c, w) ==
  [Event(Broadcast(Waiting(c, w)), "listen", w) EXCEPT !.wpc[w] = "polling"]

\* Worker._run: waiting(id), then _nextTask; nextChange resolves to void at
\* once if the token is cancelled, and then the Worker stops
Poll(c, w) ==
  LET c1 == Broadcast(Waiting(c, w))
  IN  IF c1.cancelled
        THEN WorkerStop(Return(c1, "closed", w), w)
        ELSE [Event(c1, "listen", w) EXCEPT !.wpc[w] = "polling"]

\* addWorker: new Worker(...).start(): enter(id), then _run
AddWorker(c) ==
  IF \A w \in WorkerIds : c.wpc[w] # "none"
    THEN [c EXCEPT !.overflow = TRUE]
    ELSE LET id == CHOOSE w \in WorkerIds :
                     c.wpc[w] = "none" /\ \A v \in 1..(w - 1) : c.wpc[v] # "none"
             c0 == [c EXCEPT !.spawned = @ + 1, !.wpc[id] = "starting"]
         IN  Poll(Broadcast(Enter(c0, id)), id)

\* one handler of _listeners called with the counts taken by broadcast():
\* the handler of create(), a handler that only looks at the counts, or the
\* handler of closed()
Handle(c, h, sz) ==
  IF h = "scale"
    THEN LET c1 == IF ScaleRule(sz) THEN AddWorker(c) ELSE c
         IN  [c1 EXCEPT !.notes = Append(@,
                [pool |-> sz.pool, idle |-> sz.idle,
                 started |-> c1.spawned - c.spawned])]
    ELSE IF h = "watch"
           THEN [c EXCEPT !.notes = Append(@,
                   [pool |-> sz.pool, idle |-> sz.idle, started |-> 0])]
           ELSE IF IsClosed(c)
                  THEN [c EXCEPT !.resolved = IF @ < 2 THEN @ + 1 ELSE @]
                  ELSE c

RunListeners(c, hs, sz) ==
  IF hs = <<>> THEN c ELSE RunListeners(Handle(c, Head(hs), sz), Tail(hs), sz)

Broadcast(c) ==
  LET c1 == RunListeners(c, c.listeners, SizeOf(c))
  IN  IF IsClosed(c1) THEN [c1 EXCEPT !.listeners = <<>>, !.frozen = TRUE] ELSE c1

\* the finally of Cleaner.start: leave(id)
CleanerStop(c) == Broadcast(Leave([c EXCEPT !.cpc = "left"], CleanerId))

\* a nextChange whose onCancel does not resolve: no suspended Worker stops
LeavePollingNone(c, w) == c

\* every Worker suspended in nextChange gets void and stops, w first
LeavePolling(c, w) ==
  IF w > MaxWorkers
    THEN c
    ELSE LeavePolling(IF c.wpc[w] = "polling"
                        THEN WorkerStop(Return(c, "void", w), w)
                        ELSE c, w + 1)

\* a cancel() that lets the suspended Workers stop before the token reports
\* the cancellation and before the unsubscribe of create() has run
DoCancelLate(c) ==
  IF c.cancelled
    THEN c
    ELSE LET c0 == LeavePolling(c, 1)
             c1 == [c0 EXCEPT !.cancelled = TRUE,
                              !.listeners = Unsubscribe(@, "scale"),
                              !.frozen = FALSE,
                              !.rtimer = IF @.registered THEN TimerOnCancel(@) ELSE @]
         IN  CASE c1.cpc = "polling" ->
                    CleanerStop(Return(c1, "void", CleanerId))
               [] c1.cpc = "delaying" ->
                    CleanerStop(Return(Event(c1, "timerCancelled", CleanerId),
                                       "closed", CleanerId))
               [] OTHER -> c1

\* a _resetTask that catches the timer's cancellation before the then of
\* _doResetTask: the reset of the task goes on after the cancellation
DoCancelResets(c) ==
  IF c.cancelled
    THEN c
    ELSE LET c1 == [c EXCEPT !.cancelled = TRUE,
                             !.listeners = Unsubscribe(@, "scale"),
                             !.frozen = FALSE,
                             !.rtimer = IF @.registered THEN TimerOnCancel(@) ELSE @]
             c2 == CASE c1.cpc = "polling" ->
                          CleanerStop(Return(c1, "void", CleanerId))
                     [] c1.cpc = "delaying" ->
                          [Event(c1, "timerCancelled", CleanerId)
                             EXCEPT !.cpc = "resetting"]
                     [] OTHER -> c1
         IN  LeavePolling(c2, 1)

\* cancelable.cancel(): the callbacks registered on the pool's token run once
\* (nextChange's onCancel, timer's onCancel, the unsubscribe of create()), then
\* the continuations of the promises they settled
DoCancel(c) ==
  IF c.cancelled
    THEN c
    ELSE LET c1 == [c EXCEPT !.cancelled = TRUE,
                             !.listeners = Unsubscribe(@, "scale"),
                             !.frozen = FALSE,
                             !.rtimer = IF @.registered THEN TimerOnCancel(@) ELSE @]
             c2 == CASE c1.cpc = "polling" ->
                          CleanerStop(Return(c1, "void", CleanerId))
                     [] c1.cpc = "delaying" ->
                          CleanerStop(Return(Event(c1, "timerCancelled", CleanerId),
                                             "closed", CleanerId))
                     [] OTHER -> c1
         IN  LeavePolling(c2, 1)

\* a create() without the finally that cancels after cleaner.start()
CleanerFailQuiet(c) == CleanerStop(c)

\* Cleaner._run rejects: the finally of Cleaner.start, then the finally of
\* create() that cancels the pool's token
CleanerFail(c) == DoCancel(CleanerStop(c))

\* Cleaner._run called again: nextChange resolves to void at once if the token
\* is cancelled, and then the Cleaner stops and create() cancels (again)
CleanerPoll(c) ==
  IF c.cancelled
    THEN DoCancel(CleanerStop(Return(c, "closed", CleanerId)))
    ELSE [Event(c, "listen", CleanerId) EXCEPT !.cpc = "polling"]

Commit(c) ==
  /\ ~c.overflow
  /\ pool' = c.pool
  /\ idle' = c.idle
  /\ listeners' = c.listeners
  /\ frozen' = c.frozen
  /\ cancelled' = c.cancelled
  /\ wpc' = c.wpc
  /\ cpc' = c.cpc
  /\ resolved' = c.resolved
  /\ rtimer' = c.rtimer
  /\ leaks' = c.leaks
  /\ notes' = c.notes
  /\ log' = c.log

\* ------------------------------------------------------------------ Init
\* the state in which create() returns, its token not cancelled
Init ==
  /\ size \in 1..MaxSize
  /\ tasks = [k \in Keys |-> <<>>]
  /\ nextKey = 1
  /\ now = 0
  /\ callerCancelled = FALSE
  /\ cancelled = FALSE
  /\ pool = (1 :> TRUE)
  /\ idle = (1 :> TRUE)
  /\ listeners = <<"scale", "closed">>
  /\ frozen = FALSE
  /\ wpc = [w \in WorkerIds |-> IF w = 1 THEN "polling" ELSE "none"]
  /\ wsnap = [w \in WorkerIds |-> NoKey]
  /\ wlog = [w \in WorkerIds |-> <<>>]
  /\ wfailed = [w \in WorkerIds |-> NoKey]
  /\ cpc = "polling"
  /\ csnap = NoKey
  /\ cstartedAt = NoTime
  /\ cdeadline = NoTime
  /\ txData = <<>>
  /\ clog = "none"
  /\ resolved = 0
  /\ rtimer = TimerIdle
  /\ leaks = {}
  /\ notes = <<>>
  /\ log = <<>>
  /\ linkedCancelled = FALSE
  /\ source = SourceNone
  /\ ptimer = TimedNone
  /\ job = JobNone
  /\ ref = RefNone
  /\ provider = ProviderNone

StoreVars == <<tasks, nextKey>>
PoolVars == <<pool, idle, listeners, frozen, cancelled, wpc, cpc, resolved>>
AttemptVars == <<wsnap, wlog>>
ResetVars == <<csnap, cstartedAt, cdeadline, txData, clog>>

\* a step that calls nothing of the Context, the token or the loops
PoolUnchanged ==
  /\ UNCHANGED <<PoolVars, rtimer, leaks>>
  /\ notes' = <<>>
  /\ log' = <<>>

\* the snapshot of a finished attempt is dropped
EndAttempt(w) ==
  /\ wsnap' = [wsnap EXCEPT ![w] = NoKey]
  /\ wlog' = [wlog EXCEPT ![w] = <<>>]

\* the planned reset is dropped when the Cleaner is not in _resetTask any more
ResetPlan(c) ==
  IF c.cpc \in {"delaying", "resetting"}
    THEN UNCHANGED <<csnap, cstartedAt, cdeadline, txData>>
    ELSE /\ csnap' = NoKey
         /\ cstartedAt' = NoTime
         /\ cdeadline' = NoTime
         /\ txData' = <<>>

\* a Worker that stopped has no failed task to remember
Forget(c, f) == [w \in WorkerIds |-> IF c.wpc[w] = "none" THEN NoKey ELSE f[w]]

\* -------------------------------------------------------------- producer
\* outcomes.push: a new task node, started: false
Enqueue ==
  /\ nextKey <= MaxTasks
  /\ tasks' = [tasks EXCEPT ![nextKey] = <<NewTask>>]
  /\ nextKey' = nextKey + 1
  /\ PoolUnchanged
  /\ UNCHANGED <<Fixed, now, callerCancelled, AttemptVars, wfailed, ResetVars>>

\* outcomes.push: the previous task of the subject is removed
Retract(k) ==
  /\ Exists(k)
  /\ tasks' = [tasks EXCEPT ![k] = <<>>]
  /\ PoolUnchanged
  /\ UNCHANGED <<Fixed, nextKey, now, callerCancelled, AttemptVars, wfailed, ResetVars>>

\* time passes; the clock stops at MaxTime, or when the retry timer that is
\* pending then has expired
Tick ==
  /\ now < MaxTime \/ (cpc = "delaying" /\ now < cdeadline)
  /\ now' = now + 1
  /\ PoolUnchanged
  /\ UNCHANGED <<Fixed, StoreVars, callerCancelled, AttemptVars, wfailed, ResetVars>>

\* a _run that returns when it gets a snapshot (the test of the snapshot
\* inverted): the Worker stops without claiming
WorkerReceiveStops(w) ==
  /\ wpc[w] = "polling"
  /\ Unclaimed # {}
  /\ \E c \in {WorkerStop(Return(Ctx, "snapshot", w), w)} :
         Commit(c) /\ wfailed' = Forget(c, wfailed)
  /\ UNCHANGED <<Fixed, StoreVars, now, callerCancelled, AttemptVars, ResetVars>>

\* ---------------------------------------------------------------- Worker
\* 'child_added' fires in nextChange; _run goes on to working() and the claim
WorkerReceive(w) ==
  /\ wpc[w] = "polling"
  /\ Unclaimed # {}
  /\ \E c \in {Broadcast(Working(Return(Ctx, "snapshot", w), w))} :
         Commit([c EXCEPT !.wpc[w] = "claiming"])
  /\ wsnap' = [wsnap EXCEPT ![w] = FirstUnclaimed]
  /\ wlog' = [wlog EXCEPT ![w] = <<"claimIssued">>]
  /\ UNCHANGED <<Fixed, StoreVars, now, callerCancelled, wfailed, ResetVars>>

\* the update of _claimTask succeeds; _process calls the processor
\* (no claim is written once the clock has passed MaxTime)
ClaimOk(w) ==
  /\ wpc[w] = "claiming"
  /\ now <= MaxTime
  /\ tasks' = [tasks EXCEPT ![wsnap[w]] = ClaimUpdate(@, now)]
  /\ Commit([Ctx EXCEPT !.wpc[w] = "processing"])
  /\ wlog' = [wlog EXCEPT ![w] = @ \o <<"claimed", "invoked">>]
  /\ UNCHANGED <<Fixed, nextKey, now, callerCancelled, wsnap, wfailed, ResetVars>>

\* a _run that swallows the failure of the claim and calls the processor
ClaimFailProceeds(w) ==
  /\ wpc[w] = "claiming"
  /\ Commit([Ctx EXCEPT !.wpc[w] = "processing"])
  /\ wlog' = [wlog EXCEPT ![w] = @ \o <<"invoked">>]
  /\ UNCHANGED <<Fixed, StoreVars, now, callerCancelled, wsnap, wfailed, ResetVars>>

\* a _run that catches the failure of the claim before _completeTask: the
\* processor is skipped and the remove is issued
ClaimFailCompletes(w) ==
  /\ wpc[w] = "claiming"
  /\ Commit([Ctx EXCEPT !.wpc[w] = "completing"])
  /\ wlog' = [wlog EXCEPT ![w] = @ \o <<"removeIssued">>]
  /\ UNCHANGED <<Fixed, StoreVars, now, callerCancelled, wsnap, wfailed, ResetVars>>

\* the update of _claimTask fails: logged, _run again
ClaimFail(w) ==
  /\ wpc[w] = "claiming"
  /\ \E c \in {Poll(Ctx, w)} :
         Commit(c) /\ wfailed' = Forget(c, wfailed)
  /\ EndAttempt(w)
  /\ UNCHANGED <<Fixed, StoreVars, now, callerCancelled, ResetVars>>

\* the processor resolves; _completeTask issues the remove
ProcessOk(w) ==
  /\ wpc[w] = "processing"
  /\ Commit([Ctx EXCEPT !.wpc[w] = "completing"])
  /\ wlog' = [wlog EXCEPT ![w] = @ \o <<"processed", "removeIssued">>]
  /\ UNCHANGED <<Fixed, StoreVars, now, callerCancelled, wsnap, wfailed, ResetVars>>

\* a _run that unclaims the task itself when the processor fails
ProcessFailResets(w) ==
  /\ wpc[w] = "processing"
  /\ tasks' = [tasks EXCEPT ![wsnap[w]] = ResetHandler(@)]
  /\ \E c \in {Poll(Ctx, w)} :
         Commit(c) /\ wfailed' = Forget(c, wfailed)
  /\ EndAttempt(w)
  /\ UNCHANGED <<Fixed, nextKey, now, callerCancelled, ResetVars>>

\* the processor rejects or throws: logged, _run again
ProcessFail(w) ==
  /\ wpc[w] = "processing"
  /\ \E c \in {Poll(Ctx, w)}, k \in {wsnap[w]} :
         /\ Commit(c)
         /\ wfailed' = Forget(c, [wfailed EXCEPT ![w] =
              IF Exists(k) /\ tasks[k][1].started THEN k ELSE NoKey])
  /\ EndAttempt(w)
  /\ UNCHANGED <<Fixed, StoreVars, now, callerCancelled, ResetVars>>

\* the remove of _completeTask succeeds: _run again
CompleteOk(w) ==
  /\ wpc[w] = "completing"
  /\ tasks' = [tasks EXCEPT ![wsnap[w]] = <<>>]
  /\ \E c \in {Poll(Ctx, w)} :
         Commit(c) /\ wfailed' = Forget(c, wfailed)
  /\ EndAttempt(w)
  /\ UNCHANGED <<Fixed, nextKey, now, callerCancelled, ResetVars>>

\* a _run without the catch after _completeTask: the failure of the remove
\* rejects _run and the Worker stops
CompleteFailStops(w) ==
  /\ wpc[w] = "completing"
  /\ \E c \in {WorkerStop(Ctx, w)} :
         Commit(c) /\ wfailed' = Forget(c, wfailed)
  /\ EndAttempt(w)
  /\ UNCHANGED <<Fixed, StoreVars, now, callerCancelled, ResetVars>>

\* the remove of _completeTask fails: logged, _run again
CompleteFail(w) ==
  /\ wpc[w] = "completing"
  /\ \E c \in {Poll(Ctx, w)} :
         Commit(c) /\ wfailed' = Forget(c, wfailed)
  /\ EndAttempt(w)
  /\ UNCHANGED <<Fixed, StoreVars, now, callerCancelled, ResetVars>>

\* a _run that polls again when _nextTask resolves to void on idle timeout
IdleTimeoutRepolls(w) ==
  /\ wpc[w] = "polling"
  /\ \E c \in {Poll(Return(Ctx, "void", w), w)} :
         Commit(c) /\ wfailed' = Forget(c, wfailed)
  /\ UNCHANGED <<Fixed, StoreVars, now, callerCancelled, AttemptVars, ResetVars>>

\* the idle TimedTokenSource of _nextTask expires: nextChange resolves to
\* void, _run returns and the Worker stops
IdleTimeout(w) ==
  /\ wpc[w] = "polling"
  /\ \E c \in {WorkerStop(Return(Ctx, "void", w), w)} :
         Commit(c) /\ wfailed' = Forget(c, wfailed)
  /\ UNCHANGED <<Fixed, StoreVars, now, callerCancelled, AttemptVars, ResetVars>>

\* a Worker whose query error shuts the pool down, as the Cleaner's does
WorkerQueryErrorFatal(w) ==
  /\ wpc[w] = "polling"
  /\ \E c \in {DoCancel(WorkerStop(Return(Ctx, "rejected", w), w))} :
         Commit(c) /\ ResetPlan(c) /\ wfailed' = Forget(c, wfailed)
  /\ UNCHANGED <<Fixed, StoreVars, now, callerCancelled, AttemptVars, clog>>

\* a Worker.start that calls leave in a then, not in a finally: no leave when
\* _run rejects
WorkerQueryErrorNoLeave(w) ==
  /\ wpc[w] = "polling"
  /\ \E c \in {[Return(Ctx, "rejected", w) EXCEPT !.wpc[w] = "none"]} :
         Commit(c) /\ wfailed' = Forget(c, wfailed)
  /\ UNCHANGED <<Fixed, StoreVars, now, callerCancelled, AttemptVars, ResetVars>>

\* the query of nextChange errors: _nextTask rejects and the Worker stops
WorkerQueryError(w) ==
  /\ wpc[w] = "polling"
  /\ \E c \in {WorkerStop(Return(Ctx, "rejected", w), w)} :
         Commit(c) /\ wfailed' = Forget(c, wfailed)
  /\ UNCHANGED <<Fixed, StoreVars, now, callerCancelled, AttemptVars, ResetVars>>

\* --------------------------------------------------------------- Cleaner
\* value the store client holds locally for the node when a transaction starts
LocalValues(k) == {<<>>, tasks[k]}

\* delay of _resetTask for a snapshot taken now
Delay(task) == task.startedAt + RETRY_TIMEOUT - now

\* whether _resetTask resets at once, without a timer
ResetsAtOnce(delay) == delay < 0

\* 'child_added' fires in nextChange; _run goes on to _resetTask
CleanerReceive ==
  /\ cpc = "polling"
  /\ Started # {}
  /\ LET k == FirstStarted
         task == tasks[k][1]
     IN  /\ csnap' = k
         /\ cstartedAt' = task.startedAt
         /\ IF ResetsAtOnce(Delay(task))
              THEN /\ Commit([Return(Ctx, "snapshot", CleanerId)
                                EXCEPT !.cpc = "resetting"])
                   /\ cdeadline' = NoTime
                   /\ txData' \in LocalValues(k)
              ELSE /\ Commit([Return(Ctx, "snapshot", CleanerId)
                                EXCEPT !.cpc = "delaying", !.rtimer = TimerStart])
                   /\ cdeadline' = now + Delay(task)
                   /\ txData' = <<>>
  /\ clog' = "none"
  /\ UNCHANGED <<Fixed, StoreVars, now, callerCancelled, AttemptVars, wfailed>>

\* the setTimeout of promise.timer(delay, token) expires: onTime resolves, and
\* _doResetTask starts the transaction (a promise that was rejected before
\* stays rejected)
CleanerTimer ==
  /\ rtimer.armed
  /\ now >= cdeadline
  /\ IF cpc = "delaying"
       THEN /\ Commit([Ctx EXCEPT !.cpc = "resetting", !.rtimer = TimerOnTime(@)])
            /\ cdeadline' = NoTime
            /\ txData' \in LocalValues(csnap)
       ELSE /\ Commit([Ctx EXCEPT !.rtimer = TimerOnTime(@)])
            /\ UNCHANGED <<cdeadline, txData>>
  /\ UNCHANGED <<Fixed, StoreVars, now, callerCancelled, AttemptVars, wfailed,
                 csnap, cstartedAt, clog>>

\* one round of ref.transaction: the handler's result for txData is written if
\* the node still holds txData, and _run goes on; else the handler is run again
\* on the node's value
CleanerTx ==
  /\ cpc = "resetting"
  /\ IF tasks[csnap] = txData
       THEN /\ tasks' = [tasks EXCEPT ![csnap] = ResetHandler(txData)]
            /\ clog' = IF ResetHandler(txData) = <<>> THEN "completed" ELSE "reset"
            /\ \E c \in {CleanerPoll(Ctx)} :
                   /\ Commit(c)
                   /\ wfailed' = Forget(c, [w \in WorkerIds |->
                        IF wfailed[w] = csnap /\ txData # <<>>
                          THEN NoKey ELSE wfailed[w]])
            /\ csnap' = NoKey
            /\ cstartedAt' = NoTime
            /\ txData' = <<>>
       ELSE /\ txData' = tasks[csnap]
            /\ PoolUnchanged
            /\ UNCHANGED <<tasks, clog, wfailed, csnap, cstartedAt>>
  /\ UNCHANGED <<Fixed, nextKey, now, callerCancelled, AttemptVars, cdeadline>>

\* the transaction rejects: _run rejects
CleanerTxError ==
  /\ cpc = "resetting"
  /\ \E c \in {CleanerFail(Ctx)} :
         Commit(c) /\ ResetPlan(c) /\ wfailed' = Forget(c, wfailed)
  /\ UNCHANGED <<Fixed, StoreVars, now, callerCancelled, AttemptVars, clog>>

\* the query of nextChange errors: _nextTask rejects, _run rejects
CleanerQueryError ==
  /\ cpc = "polling"
  /\ \E c \in {CleanerFail(Return(Ctx, "rejected", CleanerId))} :
         Commit(c) /\ ResetPlan(c) /\ wfailed' = Forget(c, wfailed)
  /\ UNCHANGED <<Fixed, StoreVars, now, callerCancelled, AttemptVars, clog>>

\* ---------------------------------------------------------- cancellation

\* a pool whose source is not linked to the caller's token
CancelUnlinked ==
  /\ ~callerCancelled
  /\ callerCancelled' = TRUE
  /\ \E c \in {Ctx} :
         Commit(c) /\ ResetPlan(c) /\ wfailed' = Forget(c, wfailed)
  /\ UNCHANGED <<Fixed, StoreVars, now, AttemptVars, clog>>

\* the caller cancels options.cancelToken; the linked source cancels with it
Cancel ==
  /\ ~callerCancelled
  /\ callerCancelled' = TRUE
  /\ \E c \in {DoCancel(Ctx)} :
         Commit(c) /\ ResetPlan(c) /\ wfailed' = Forget(c, wfailed)
  /\ UNCHANGED <<Fixed, StoreVars, now, AttemptVars, clog>>

\* ------------------------------------------------------------------ Next
Next ==
  \/ Enqueue
  \/ \E k \in Keys : Retract(k)
  \/ Tick
  \/ \E w \in WorkerIds : WorkerReceive(w)
  \/ \E w \in WorkerIds : ClaimOk(w)
  \/ \E w \in WorkerIds : ClaimFail(w)
  \/ \E w \in WorkerIds : ProcessOk(w)
  \/ \E w \in WorkerIds : ProcessFail(w)
  \/ \E w \in WorkerIds : CompleteOk(w)
  \/ \E w \in WorkerIds : CompleteFail(w)
  \/ \E w \in WorkerIds : IdleTimeout(w)
  \/ \E w \in WorkerIds : WorkerQueryError(w)
  \/ CleanerReceive
  \/ CleanerTimer
  \/ CleanerTx
  \/ CleanerTxError
  \/ CleanerQueryError
  \/ Cancel

Spec == Init /\ [][Next]_vars

TypeOK ==
  /\ size \in 1..MaxSize
  /\ now \in 0..(MaxTime + RETRY_TIMEOUT)
  /\ resolved \in 0..2
  /\ frozen \in BOOLEAN
  /\ cpc \in {"polling", "delaying", "resetting", "left"}
  /\ \A w \in WorkerIds :
       wpc[w] \in {"none", "polling", "claiming", "processing", "completing"}

\* ---------------------------------------------------------- fairness
\* a store write or a processor call in flight settles, one way or the other
Settle(w) ==
  \/ ClaimOk(w) \/ ClaimFail(w)
  \/ ProcessOk(w) \/ ProcessFail(w)
  \/ CompleteOk(w) \/ CompleteFail(w)

\* a Worker with a write or a processor call pending: Settle(w) is enabled
InFlight(w) == wpc[w] \in {"claiming", "processing", "completing"}

\* 'child_added' is due to a Worker: the query has a child and a Worker listens
CanReceive == Unclaimed # {} /\ \E w \in WorkerIds : wpc[w] = "polling"

\* the event loop runs what is ready: store events and timers of the Cleaner
\* are delivered, its transaction rounds end, writes and processor calls
\* settle, and time passes.  The first conjunct is WF_vars(Settle(w)) with
\* ENABLED <<Settle(w)>>_vars written as InFlight(w); the second is weak
\* fairness of the delivery of 'child_added' to some Worker, written likewise.
Fairness ==
  /\ \A w \in WorkerIds : []<>(~InFlight(w)) \/ []<><<Settle(w)>>_vars
  /\ []<>(~CanReceive) \/ []<><<\E w \in WorkerIds : WorkerReceive(w)>>_vars
  /\ WF_vars(CleanerReceive)
  /\ WF_vars(CleanerTimer)
  /\ WF_vars(CleanerTx \/ CleanerTxError)
  /\ WF_vars(Tick)

LiveSpec == Spec /\ Fairness

\* ------------------------------------------------ parts run on their own
\* the variables of a pool, but for the clock
PoolFrame ==
  <<size, StoreVars, callerCancelled, PoolVars, AttemptVars, wfailed, ResetVars,
    rtimer, leaks, notes, log>>

\* create() was not called: no Context, no Worker, no Cleaner, an empty store
NoPool ==
  /\ size = 1
  /\ tasks = [k \in Keys |-> <<>>]
  /\ nextKey = 1
  /\ callerCancelled = FALSE
  /\ cancelled = FALSE
  /\ pool = <<>>
  /\ idle = <<>>
  /\ listeners = <<>>
  /\ frozen = FALSE
  /\ wpc = [w \in WorkerIds |-> "none"]
  /\ wsnap = [w \in WorkerIds |-> NoKey]
  /\ wlog = [w \in WorkerIds |-> <<>>]
  /\ wfailed = [w \in WorkerIds |-> NoKey]
  /\ cpc = "left"
  /\ csnap = NoKey
  /\ cstartedAt = NoTime
  /\ cdeadline = NoTime
  /\ txData = <<>>
  /\ clog = "none"
  /\ resolved = 0
  /\ rtimer = TimerIdle
  /\ leaks = {}
  /\ notes = <<>>
  /\ log = <<>>

\* ---------------------------- promise.timer on the token of a timed source
\* as in the tests of timer: a TimedTokenSource, linked to a token or not, and
\* one promise.timer(delay, token) on its token, or on Token.none

\* what the steps of a timer and of a source leave alone
TimerFrame == <<PoolFrame, job, ref, provider>>

TimerInit ==
  /\ NoPool
  /\ now = 0
  /\ linkedCancelled \in BOOLEAN
  /\ source = SourceNone
  /\ ptimer = TimedNone
  /\ job = JobNone
  /\ ref = RefNone
  /\ provider = ProviderNone

\* new TimedTokenSource(d, [linked token])
NewSource(d) ==
  /\ source.state = "none" /\ ptimer.promise = "none"
  /\ source' = TimedTokenSource(d, linkedCancelled, now)
  /\ UNCHANGED <<TimerFrame, now, linkedCancelled, ptimer>>

\* promise.timer(d, source.token), or promise.timer(d) if there is no source
CallTimer(d) ==
  /\ ptimer.promise = "none"
  /\ ptimer' = TimerCall(d, Requested(source), now)
  /\ UNCHANGED <<TimerFrame, now, linkedCancelled, source>>

\* the setTimeout of promise.timer expires: onTime
TimerExpires ==
  /\ ptimer.t.armed /\ now >= ptimer.due
  /\ ptimer' = TimedOnTime(ptimer)
  /\ UNCHANGED <<TimerFrame, now, linkedCancelled, source>>

\* the token of the source is cancelled by s, the source after the step: the
\* callbacks registered on it run if it was open before
Cancelling(s) ==
  /\ source' = s
  /\ ptimer' = IF source.state = "open" /\ Requested(s)
                 THEN RunCallbacks(ptimer) ELSE ptimer

\* an expiry of the job's source that ends the Worker's attempt
SourceExpiresAborts ==
  /\ source.timer /\ now >= source.due
  /\ Cancelling(SourceOnTime(source))
  /\ job' = IF job.run = "processing"
              THEN [job EXCEPT !.run = "polling", !.polls = @ + 1] ELSE job
  /\ UNCHANGED <<PoolFrame, ref, provider, now, linkedCancelled>>

\* the setTimeout of the source expires: super.cancel()
SourceExpires ==
  /\ source.timer /\ now >= source.due
  /\ Cancelling(SourceOnTime(source))
  /\ UNCHANGED <<TimerFrame, now, linkedCancelled>>

\* source.cancel()
CallCancel ==
  /\ source.state # "none"
  /\ Cancelling(SourceCancel(source))
  /\ UNCHANGED <<TimerFrame, now, linkedCancelled>>

\* source.close()
CallClose ==
  /\ source.state # "none"
  /\ source' = SourceClose(source)
  /\ UNCHANGED <<TimerFrame, now, linkedCancelled, ptimer>>

\* the linked token is cancelled: an open source linked to it cancels, through
\* its own cancel() or not (its setTimeout is cleared or stays)
LinkedCancel ==
  /\ ~linkedCancelled
  /\ linkedCancelled' = TRUE
  /\ \E s \in {SourceCancel(source), SuperCancel(source)} : Cancelling(s)
  /\ UNCHANGED <<TimerFrame, now>>

\* time passes, up to MaxDelay and to the expiry of the timeouts that are set
TimerTick ==
  /\ \/ now < MaxDelay
     \/ source.timer /\ now < source.due
     \/ ptimer.t.armed /\ now < ptimer.due
  /\ now' = now + 1
  /\ UNCHANGED <<TimerFrame, UnitVars>>

TimerNext ==
  \/ \E d \in 0..MaxDelay : NewSource(d)
  \/ \E d \in 0..MaxDelay : CallTimer(d)
  \/ TimerExpires
  \/ SourceExpires
  \/ CallCancel
  \/ CallClose
  \/ LinkedCancel
  \/ TimerTick

TimerSpec == TimerInit /\ [][TimerNext]_vars

\* ------------------------------------------------ Worker._process alone
\* The _process calls of one Worker, one after the other as in _run: each
\* makes a TimedTokenSource on the job time out, calls the processor inside
\* Promise.try and closes the source in a finally.
MaxCalls == 2
JobKeys == 1..MaxCalls
Payloads == {"data", "none"}
Settled == {"resolved", "rejected", "threw"}

JobInit ==
  /\ NoPool
  /\ now = 0
  /\ linkedCancelled = FALSE
  /\ source = SourceNone
  /\ ptimer = TimedNone
  /\ job = JobNone
  /\ ref = RefNone
  /\ provider = ProviderNone

JobFrame == <<PoolFrame, linkedCancelled, ptimer, ref, provider>>

\* the pool's token, ctx.cancelToken
PoolToken == "ctx.cancelToken"

\* a _process whose source is linked to the pool's token, as the source of
\* _nextTask is
ProcessLinksPool == {PoolToken}

\* the tokens that _process links its TimedTokenSource to: none
ProcessLinks == {}

\* the processor is called with the key, the payload and the token of timer
CallProcessor(j, key, task) ==
  [j EXCEPT !.calls = @ + 1, !.key = key, !.payload = task,
            !.sources = @ + 1, !.token = j.sources + 1, !.state = "running",
            !.run = "processing"]

\* a finally that does not run when the promise is rejected
ProcessFinallyOnResolve(j, s, how) ==
  IF how = "resolved"
    THEN <<[j EXCEPT !.state = how, !.closes = @ + 1], SourceClose(s)>>
    ELSE <<[j EXCEPT !.state = how], s>>

\* the promise of Promise.try settles: finally(() => timer.close())
ProcessFinally(j, s, how) ==
  <<[j EXCEPT !.state = how, !.closes = @ + 1], SourceClose(s)>>

\* _run called again: _nextTask returns void on a cancelled pool token and the
\* Worker leaves, else the Worker waits for a task
Repoll(j) ==
  [j EXCEPT !.polls = @ + 1, !.run = IF linkedCancelled THEN "left" ELSE "polling"]

\* the chain of _run once _process has settled: _completeTask if it resolved,
\* else the catch and _run again
RunAfter(j) ==
  CASE j.state = "resolved" -> [j EXCEPT !.run = "completing", !.removes = @ + 1]
    [] j.state \in {"rejected", "threw"} -> Repoll(j)
    [] OTHER -> j

\* _process(key, task); a processor that throws makes the promise of
\* Promise.try rejected at once, and the finally runs in the same step
JobProcess(key, task, d, throws) ==
  /\ job.state \in Settled \cup {"none"}
  /\ job.run \in {"none", "polling"}
  /\ job.calls < MaxCalls
  /\ LET timer == TimedTokenSource(d, PoolToken \in ProcessLinks /\ linkedCancelled, now)
         j == CallProcessor(job, key, task)
         after == IF throws THEN ProcessFinally(j, timer, "threw") ELSE <<j, timer>>
     IN  job' = RunAfter(after[1]) /\ source' = after[2]
  /\ UNCHANGED <<JobFrame, now>>

\* the promise the processor returned resolves or rejects
ProcessorSettles(how) ==
  /\ job.state = "running"
  /\ LET after == ProcessFinally(job, source, how)
     IN  job' = RunAfter(after[1]) /\ source' = after[2]
  /\ UNCHANGED <<JobFrame, now>>

\* the remove of _completeTask settles, one way or the other: _run again
RemoveSettles ==
  /\ job.run = "completing"
  /\ job' = Repoll(job)
  /\ UNCHANGED <<JobFrame, now, source>>

\* the pool's token is cancelled: a source linked to it cancels, and a Worker
\* suspended in _nextTask gets void and leaves
PoolCancel ==
  /\ ~linkedCancelled
  /\ linkedCancelled' = TRUE
  /\ source' = IF PoolToken \in ProcessLinks /\ source.state = "open"
                 THEN SourceCancel(source) ELSE source
  /\ job' = IF job.run \in {"none", "polling"} THEN [job EXCEPT !.run = "left"] ELSE job
  /\ UNCHANGED <<PoolFrame, ptimer, ref, provider, now>>

JobNext ==
  \/ \E key \in JobKeys, task \in Payloads, d \in 0..MaxDelay, throws \in BOOLEAN :
         JobProcess(key, task, d, throws)
  \/ \E how \in {"resolved", "rejected"} : ProcessorSettles(how)
  \/ RemoveSettles
  \/ PoolCancel
  \/ SourceExpires
  \/ TimerTick

JobSpec == JobInit /\ [][JobNext]_vars

\* ------------------------------------- the reset transaction on a node
\* The handler that _doResetTask gives to ref.transaction, applied to the
\* value of a node: no node, or a task with any started, startedAt and
\* payload.  Between two resets a Worker may claim the node.
Nodes ==
  {<<>>} \cup {<<Node(s, t, p)>> :
                 s \in BOOLEAN, t \in {NoTime} \cup 0..MaxTime, p \in Payloads}

ResetInit ==
  /\ NoPool
  /\ now = 0
  /\ linkedCancelled = FALSE
  /\ source = SourceNone
  /\ ptimer = TimedNone
  /\ job = JobNone
  /\ ref \in {[before |-> d, data |-> d, runs |-> 0] : d \in Nodes}
  /\ provider = ProviderNone

ResetFrame == <<PoolFrame, now, linkedCancelled, source, ptimer, job, provider>>

\* the transaction commits what its handler returns for the node's value
ResetTx ==
  /\ ref.runs < MaxCalls
  /\ ref' = [ref EXCEPT !.data = ResetHandler(@), !.runs = @ + 1]
  /\ UNCHANGED ResetFrame

\* a Worker's _claimTask on the node, at server time t
RefClaim(t) ==
  /\ ref' = [ref EXCEPT !.data = ClaimUpdate(@, t)]
  /\ UNCHANGED ResetFrame

ResetNext ==
  \/ ResetTx
  \/ \E t \in 0..MaxTime : RefClaim(t)

ResetSpec == ResetInit /\ [][ResetNext]_vars

\* --------------------------------------- outcomes.push and .request
\* Launches that set or clear a user's sourceDid, push calls for the subjects
\* (a read of the user, then one multi-path update), the Workers of the
\* outcome queue (claim by update, removal on completion) and the calls of
\* request() by their processor, for any task made so far.  The credentials
\* and the launch info with its service url are there.
OutcomeInit ==
  /\ NoPool
  /\ now = 0
  /\ linkedCancelled = FALSE
  /\ source = SourceNone
  /\ ptimer = TimedNone
  /\ job = JobNone
  /\ ref = RefNone
  /\ provider = ProviderNone

OutcomeFrame == <<PoolFrame, now, linkedCancelled, source, ptimer, job, ref>>

\* outcomes.task(): nothing for no user, else the previous task id and
\* whether there is a task to push (the user has a sourceDid)
OutcomesTask(u) ==
  IF UserNull(u)
    THEN [void |-> TRUE, prev |-> NoTask, task |-> FALSE]
    ELSE [void |-> FALSE, prev |-> u.outcomeTask, task |-> u.sourceDid]

\* a patch that leaves the previous task in the queue
PatchKeepsPrevious(pr, call, taskId) ==
  LET s == call.subject
  IN  [pr EXCEPT !.users[s].grade = call.grade,
                 !.users[s].outcomeTask = IF call.task THEN taskId ELSE NoTask,
                 !.queue = IF call.task THEN [@ EXCEPT ![taskId] = s] ELSE @,
                 !.made = IF call.task THEN Append(@, s) ELSE @]

\* the patch of push, applied in one update: the grade, the previous task and
\* outcomeTask removed, the new task under taskId and outcomeTask set to it
Patch(pr, call, taskId) ==
  LET s == call.subject
      q1 == IF call.prev # NoTask
              THEN [pr.queue EXCEPT ![call.prev] = NoTask] ELSE pr.queue
      o1 == IF call.prev # NoTask THEN NoTask ELSE pr.users[s].outcomeTask
  IN  [pr EXCEPT !.users[s].grade = call.grade,
                 !.users[s].outcomeTask = IF call.task THEN taskId ELSE o1,
                 !.queue = IF call.task THEN [q1 EXCEPT ![taskId] = s] ELSE q1,
                 !.made = IF call.task THEN Append(@, s) ELSE @]

\* request(): a request only for a user with a sourceDid whose outcomeTask is
\* taskId.  RequestAny is a request() that does not compare the ids.
RequestAny(u, taskId) == ~UserNull(u) /\ u.sourceDid

Request(u, taskId) == ~UserNull(u) /\ u.sourceDid /\ taskId = u.outcomeTask

\* launches.init: the user's sourceDid is set, or removed
LaunchInit(s, did) ==
  /\ provider' = [provider EXCEPT !.users[s].sourceDid = did]
  /\ UNCHANGED OutcomeFrame

\* push(grade, subject) up to the answer of outcomes.task(); with no user the
\* destructuring of its answer throws and push is rejected
PushTask(p, s, g) ==
  /\ provider.push[p].pc = "idle"
  /\ LET r == OutcomesTask(provider.users[s])
         other == \E o \in Pushers \ {p} :
                     provider.push[o].pc = "task" /\ provider.push[o].subject = s
     IN  provider' =
           IF r.void
             THEN [provider EXCEPT !.push[p] = [PushIdle EXCEPT !.subject = s]]
             ELSE [provider EXCEPT
                     !.push[p] = [pc |-> "task", subject |-> s, grade |-> g,
                                  prev |-> r.prev, task |-> r.task],
                     !.raced[s] = @ \/ other]
  /\ UNCHANGED OutcomeFrame

\* providerRef.update(patch), with a new uuid if there is a task
PushUpdate(p) ==
  /\ provider.push[p].pc = "task"
  /\ provider.push[p].task => Len(provider.made) < MaxIds
  /\ provider' = [Patch(provider, provider.push[p], Len(provider.made) + 1)
                    EXCEPT !.push[p] = PushIdle]
  /\ UNCHANGED OutcomeFrame

\* a Worker's _claimTask on a task it found: update() writes even where the
\* node has been removed
QueueClaim(t) ==
  /\ t \in 1..Len(provider.made)
  /\ provider' = [provider EXCEPT !.queue[t] = IF @ = NoTask THEN Zombie ELSE @]
  /\ UNCHANGED OutcomeFrame

\* a Worker's _completeTask: remove()
QueueComplete(t) ==
  /\ t \in 1..Len(provider.made)
  /\ provider.queue[t] # NoTask
  /\ provider' = [provider EXCEPT !.queue[t] = NoTask]
  /\ UNCHANGED OutcomeFrame

\* the processor calls request(taskId, task) for the task a Worker holds
CallRequest(t) ==
  /\ t \in 1..Len(provider.made)
  /\ LET s == provider.made[t]
     IN  provider' = [provider EXCEPT !.last =
           [taskId |-> t, subject |-> s, request |-> Request(provider.users[s], t)]]
  /\ UNCHANGED OutcomeFrame

OutcomeNext ==
  \/ \E s \in Subjects, did \in BOOLEAN : LaunchInit(s, did)
  \/ \E p \in Pushers, s \in Subjects, g \in Grades : PushTask(p, s, g)
  \/ \E p \in Pushers : PushUpdate(p)
  \/ \E t \in TaskIds : QueueClaim(t)
  \/ \E t \in TaskIds : QueueComplete(t)
  \/ \E t \in TaskIds : CallRequest(t)

OutcomeSpec == OutcomeInit /\ [][OutcomeNext]_vars

\* ------------------------------------------------- a Context on its own
\* as in the tests of Context: a Context on a token, ids that call enter,
\* waiting, working and leave in the order of a Worker, one closed() and one
\* subscribed handler at most, and the token cancelled at any time.  For an
\* id, wpc holds its last call ("none" before enter and after leave).
CtxInit ==
  /\ NoPool
  /\ now = 0
  /\ linkedCancelled = FALSE
  /\ source = SourceNone
  /\ ptimer = TimedNone
  /\ job = JobNone
  /\ ref = RefNone
  /\ provider = ProviderNone

CtxFrame ==
  <<size, StoreVars, now, callerCancelled, AttemptVars, wfailed, cpc, ResetVars,
    UnitVars>>

\* what a call of the Context leaves: its maps and listeners, the promise of
\* closed(), the calls and notifications of the step; `last` is the call of id
CtxCommit(c, id, last) ==
  /\ Commit([c EXCEPT !.wpc[id] = last])
  /\ UNCHANGED CtxFrame

CtxEnter(id) ==
  /\ wpc[id] = "none"
  /\ CtxCommit(Broadcast(Enter(Ctx, id)), id, "enter")

CtxWaiting(id) ==
  /\ wpc[id] \in {"enter", "working"}
  /\ CtxCommit(Broadcast(Waiting(Ctx, id)), id, "waiting")

CtxWorking(id) ==
  /\ wpc[id] = "waiting"
  /\ CtxCommit(Broadcast(Working(Ctx, id)), id, "working")

CtxLeave(id) ==
  /\ wpc[id] # "none"
  /\ CtxCommit(Broadcast(Leave(Ctx, id)), id, "none")

\* the source of the Context's token is cancelled: the Context registers
\* nothing on its token, so that nothing of it runs
CtxCancel ==
  /\ ~cancelled
  /\ Commit([Ctx EXCEPT !.cancelled = TRUE])
  /\ UNCHANGED CtxFrame

\* closed() is called (once)
CtxClosed ==
  /\ resolved = 0 /\ \A i \in DOMAIN listeners : listeners[i] # "closed"
  /\ Commit(Event(Closed(Ctx), "closed", CleanerId))
  /\ UNCHANGED CtxFrame

\* subscribe(handler) is called (one handler at a time)
CtxSubscribe ==
  /\ \A i \in DOMAIN listeners : listeners[i] # "watch"
  /\ Commit(Event(Subscribe(Ctx, "watch"), "subscribe", CleanerId))
  /\ UNCHANGED CtxFrame

\* unsubscribe(handler) is called: _listeners is a new array
CtxUnsubscribe ==
  /\ Commit(Event([Ctx EXCEPT !.listeners = Unsubscribe(@, "watch"),
                               !.frozen = FALSE], "unsubscribe", CleanerId))
  /\ UNCHANGED CtxFrame

CtxNext ==
  \/ \E id \in WorkerIds : CtxEnter(id)
  \/ \E id \in WorkerIds : CtxWaiting(id)
  \/ \E id \in WorkerIds : CtxWorking(id)
  \/ \E id \in WorkerIds : CtxLeave(id)
  \/ CtxCancel
  \/ CtxClosed
  \/ CtxSubscribe
  \/ CtxUnsubscribe

CtxSpec == CtxInit /\ [][CtxNext]_vars

\* ---------------------------------------------------------------------------
\* The Context called out of the order of a Worker: waiting(id) and
\* working(id) for any id, entered or not
\* ---------------------------------------------------------------------------

\* whatever the id's last call was
AnyWaiting(id) ==
  /\ wpc[id] \in {"none", "enter", "waiting", "working"}
  /\ CtxCommit(Broadcast(Waiting(Ctx, id)), id, "waiting")

AnyWorking(id) ==
  /\ wpc[id] \in {"none", "enter", "waiting", "working"}
  /\ CtxCommit(Broadcast(Working(Ctx, id)), id, "working")

AnyCallNext ==
  \/ \E id \in WorkerIds : CtxEnter(id)
  \/ \E id \in WorkerIds : AnyWaiting(id)
  \/ \E id \in WorkerIds : AnyWorking(id)
  \/ \E id \in WorkerIds : CtxLeave(id)
  \/ CtxCancel
  \/ CtxClosed
  \/ CtxSubscribe
  \/ CtxUnsubscribe

AnyCallSpec == CtxInit /\ [][AnyCallNext]_vars

\* ---------------------------------------------------------------- claims
Alive(w) == wpc[w] # "none"
Claimed(k) == Exists(k) /\ tasks[k][1].started
InLoop == cpc \in {"polling", "delaying", "resetting"}

\* a step of the Cleaner's transaction (a round, its commit or its failure)
TxStep == cpc = "resetting" /\ <<cpc, txData>>' # <<cpc, txData>>

\* the transaction commits a reset of the existing node k
ResetOf(k) ==
  /\ cpc = "resetting" /\ csnap = k /\ cpc' # "resetting"
  /\ Claimed(k) /\ tasks'[k] # <<>> /\ ~tasks'[k][1].started

\* C1: once the pool's token is cancelled, every Worker and the Cleaner leave,
\* isClosed() becomes true and the promise of create() is resolved, once
C1_ShutdownConverges ==
  /\ cancelled ~> (/\ \A w \in WorkerIds : ~Alive(w)
                   /\ cpc = "left"
                   /\ IsClosed(Ctx)
                   /\ resolved = 1)
  /\ [](resolved <= 1)

C1_Witness ==
  /\ callerCancelled /\ resolved = 1 /\ cpc = "left"
  /\ \A w \in WorkerIds : ~Alive(w)
  /\ \E k \in Keys : Claimed(k)

\* C2: the promise of create() is never resolved while a Worker is between
\* enter and leave or while the Cleaner is inside its run loop
C2_ResolvedAfterLoopsExit ==
  resolved > 0 => (\A w \in WorkerIds : ~Alive(w)) /\ ~InLoop

\* C3: for each snapshot a Worker receives, the claim is written before the
\* processor is invoked and the processor resolves before the remove is issued
C3_Order == <<"claimIssued", "claimed", "invoked", "processed", "removeIssued">>

C3_ClaimProcessDelete ==
  \A w \in WorkerIds :
    /\ wlog[w] = SubSeq(C3_Order, 1, Len(wlog[w]))
    /\ wpc[w] = "claiming" => wlog[w] = SubSeq(C3_Order, 1, 1)
    /\ wpc[w] = "processing" => wlog[w] = SubSeq(C3_Order, 1, 3)
    /\ wpc[w] = "completing" => wlog[w] = C3_Order
    /\ wpc[w] \in {"none", "polling"} => wlog[w] = <<>>

C3_Witness == \E w \in WorkerIds : wpc[w] = "completing" /\ wlog[w] = C3_Order

\* C4: a task is never reset before T + retryTimeout, T being the startedAt
\* that the task holds in the store when the reset commits
C4_NeverResetEarly ==
  [][\A k \in Keys : ResetOf(k) =>
       now >= tasks[k][1].startedAt + RETRY_TIMEOUT]_vars

\* C5: while the pool is not shut down, a task claimed at T that still exists
\* is in the end reset (or gone), and is reset no earlier than T + retryTimeout,
\* T being the startedAt of the claim that the node holds
C5_ClaimedIsReset ==
  /\ \A k \in Keys : (Claimed(k) /\ ~cancelled) ~> (~Claimed(k) \/ cancelled)
  /\ [][\A k \in Keys, t \in 0..(MaxTime + RETRY_TIMEOUT) :
         (Claimed(k) /\ tasks[k][1].startedAt = t /\ ResetOf(k))
            => now >= t + RETRY_TIMEOUT]_vars

\* C6: at every notification, the handler of create() starts exactly one
\* Worker if idle < 1 and pool < size, and none otherwise
C6_ScaleUpRule ==
  \A i \in DOMAIN notes :
    notes[i].started = IF notes[i].idle < 1 /\ notes[i].pool < size THEN 1 ELSE 0

C6_Witness ==
  /\ \E i \in DOMAIN notes : notes[i].started = 1 /\ notes[i].pool = size - 1
  /\ \E i \in DOMAIN notes : notes[i].started = 0 /\ notes[i].pool = size

\* C7: the number of alive Workers that the Context tracks never exceeds size
C7_PoolBound == CountTrue(pool) <= size

C7_Witness ==
  /\ size = MaxSize /\ CountTrue(pool) = size /\ CountTrue(idle) = 0

\* C8: the reset transaction on a node that does not exist leaves it absent
C8_ResetOfMissingIsNoop ==
  /\ ResetHandler(<<>>) = <<>>
  /\ [][(TxStep /\ tasks[csnap] = <<>>) => tasks'[csnap] = <<>>]_vars

C8_Witness ==
  /\ clog = "completed" /\ cpc # "resetting"
  /\ \A k \in Keys : ~Exists(k)

\* C9: for every task node, started implies that startedAt is a timestamp and
\* not started implies that startedAt is null
C9_TaskInvariant ==
  \A k \in Keys : Exists(k) =>
    /\ tasks[k][1].started => tasks[k][1].startedAt >= 0
    /\ ~tasks[k][1].started => tasks[k][1].startedAt = NoTime

C9_Witness ==
  /\ clog = "reset"
  /\ \E k \in Keys : Exists(k) /\ ~tasks[k][1].started /\ tasks[k][1].startedAt = NoTime

\* C10: when the processor fails for a claimed task, that step changes no task;
\* a task in the store stops being claimed only by a Cleaner's reset; and the
\* Worker does not get that task again before a Cleaner has reset it
C10_FailedTaskStaysClaimed ==
  /\ [][\A w \in WorkerIds :
          (wpc[w] = "processing" /\ wpc'[w] \notin {"processing", "completing"})
            => tasks' = tasks]_vars
  /\ [][\A k \in Keys :
          (Claimed(k) /\ tasks'[k] # <<>> /\ ~tasks'[k][1].started) => ResetOf(k)]_vars
  /\ [](\A w \in WorkerIds : wsnap[w] # NoKey => wfailed[w] # wsnap[w])

C10_Witness ==
  \E w \in WorkerIds :
    /\ wfailed[w] # NoKey /\ wpc[w] = "polling"
    /\ Claimed(wfailed[w])

C12_CleanerFailureShutsDown ==
  /\ [][(CleanerTxError \/ CleanerQueryError) => cancelled' /\ cpc' = "left"]_vars
  /\ [](cpc = "left" => cancelled)
  /\ (cpc = "left") ~> (resolved = 1 /\ \A w \in WorkerIds : ~Alive(w))

C12_Witness ==
  /\ ~callerCancelled /\ cancelled /\ cpc = "left" /\ resolved = 1
  /\ \A w \in WorkerIds : ~Alive(w)
  /\ \E k \in Keys : Claimed(k)

\* the first call of the step just taken is _nextTask of id returning as `how`
Returned(how, id) == log' # <<>> /\ log'[1] = [op |-> how, id |-> id]

\* C13: in a step in which _nextTask of a Worker rejects, that Worker calls
\* leave, the pool's token is not cancelled, the Cleaner and every other
\* Worker stay where they are, and one Worker is started if idle < 1 and
\* pool < size at the notification of that leave, none otherwise
C13_QueryErrorStopsOneWorker ==
  [][\A w \in WorkerIds : Returned("rejected", w) =>
       LET rule == CountTrue(idle) - 1 < 1 /\ CountTrue(pool) - 1 < size
           new == {v \in WorkerIds : v = w \/ ~Alive(v)}
       IN  /\ log'[2] = [op |-> "leave", id |-> w]
           /\ ~cancelled' /\ cpc' = cpc /\ cpc # "left"
           /\ \A v \in WorkerIds \ new : wpc'[v] = wpc[v]
           /\ notes'[Len(notes')] =
                [pool |-> CountTrue(pool) - 1, idle |-> CountTrue(idle) - 1,
                 started |-> IF rule THEN 1 ELSE 0]
           /\ \A i \in 1..(Len(notes') - 1) : notes'[i].started = 0
           /\ Cardinality({v \in new : Alive(v)'}) = IF rule THEN 1 ELSE 0]_vars

C13_Witness ==
  /\ log # <<>> /\ log[1].op = "rejected" /\ log[1].id \in WorkerIds
  /\ notes[Len(notes)].started = 1 /\ ~cancelled
  /\ \E v \in WorkerIds : wpc[v] = "processing"
  /\ \E v \in WorkerIds : wpc[v] = "polling"

\* C14: a Worker calls the processor on a snapshot, and issues the remove for
\* it, only after the claim of that snapshot was written; the step in which
\* the claim write fails ends the attempt with no call and no write
C14_NoProcessingWithoutClaim ==
  /\ [](\A w \in WorkerIds : \A i \in DOMAIN wlog[w] :
          wlog[w][i] \in {"invoked", "removeIssued"}
            => \E j \in 1..(i - 1) : wlog[w][j] = "claimed")
  /\ [][\A w \in WorkerIds : ClaimFail(w) =>
          /\ wpc'[w] \in {"polling", "none"}
          /\ wlog'[w] = <<>> /\ wsnap'[w] = NoKey
          /\ tasks' = tasks]_vars

C14_Witness ==
  /\ now = 0 /\ Unclaimed # {}
  /\ \E w \in WorkerIds :
       /\ wpc[w] = "polling" /\ wlog[w] = <<>>
       /\ log = <<[op |-> "waiting", id |-> w], [op |-> "listen", id |-> w]>>

\* the claim write, the processor or the remove of Worker w fails
AttemptFails(w) == ClaimFail(w) \/ ProcessFail(w) \/ CompleteFail(w)

\* C15: in a step in which the claim write, the processor or the remove of a
\* Worker fails, the token is left as it is, the Worker calls waiting and
\* then _nextTask, and no other Worker and not the Cleaner is touched; unless
\* the pool's token was cancelled before, the Worker stays in the pool and
\* listens for its next task
C15_FailureRecoveredLocally ==
  [][\A w \in WorkerIds : AttemptFails(w) =>
       /\ cancelled' = cancelled /\ cpc' = cpc
       /\ \A v \in WorkerIds \ {w} : wpc'[v] = wpc[v]
       /\ log'[1] = [op |-> "waiting", id |-> w]
       /\ log'[2] = [op |-> IF cancelled THEN "void" ELSE "listen", id |-> w]
       /\ ~cancelled =>
            /\ wpc'[w] = "polling" /\ Len(log') = 2
            /\ w \in DOMAIN pool' /\ pool'[w] /\ idle'[w]]_vars

C15_Witness ==
  /\ ~cancelled /\ cpc # "left"
  /\ \E w \in WorkerIds :
       /\ wpc[w] = "polling" /\ wfailed[w] # NoKey
       /\ log = <<[op |-> "waiting", id |-> w], [op |-> "listen", id |-> w]>>

\* the lifecycle of one Worker as a machine over its calls: where the Worker
\* is after the call op, "bad" if the call is out of order
LifeStep(at, op) ==
  CASE at = "out" /\ op = "enter" -> "entered"
    [] at = "entered" /\ op = "waiting" -> "waited"
    [] at = "waited" /\ op = "listen" -> "listening"
    [] at = "waited" /\ op = "void" -> "exiting"
    [] at = "listening" /\ op = "snapshot" -> "got"
    [] at = "listening" /\ op \in {"void", "rejected"} -> "exiting"
    [] at = "got" /\ op = "working" -> "busy"
    [] at = "busy" /\ op = "waiting" -> "waited"
    [] at = "exiting" /\ op = "leave" -> "out"
    [] OTHER -> "bad"

RECURSIVE LifeWalk(_, _)
LifeWalk(at, calls) ==
  IF calls = <<>> THEN at ELSE LifeWalk(LifeStep(at, Head(calls).op), Tail(calls))

\* where a Worker is between two steps
LifeAt(pc) ==
  CASE pc = "none" -> "out"
    [] pc = "polling" -> "listening"
    [] OTHER -> "busy"

\* C16: the calls of each Worker follow enter, waiting, then for each poll
\* either a snapshot, working, the attempt and waiting again, or the end of
\* the loop and leave: enter once at the start, waiting before each poll,
\* working exactly after a snapshot was received, waiting after each attempt,
\* leave once on every way out of the loop and nothing but the enter of a new
\* Worker after it; and the Context tracks exactly the Workers between enter
\* and leave, idle exactly while they wait
C16_Lifecycle ==
  /\ [][\A w \in WorkerIds :
          LifeWalk(LifeAt(wpc[w]), SelectSeq(log', LAMBDA e : e.id = w))
            = LifeAt(wpc'[w])]_vars
  /\ [](/\ DOMAIN pool = {w \in WorkerIds : Alive(w)}
        /\ DOMAIN idle = DOMAIN pool
        /\ \A w \in DOMAIN pool : pool[w] /\ (idle[w] <=> wpc[w] = "polling"))

C16_Witness ==
  \E w \in WorkerIds : \E v \in WorkerIds \ {w} :
    /\ wpc[v] = "processing" /\ wpc[w] = "polling"
    /\ log = <<[op |-> "rejected", id |-> w], [op |-> "leave", id |-> w],
               [op |-> "enter", id |-> w], [op |-> "waiting", id |-> w],
               [op |-> "listen", id |-> w]>>

\* C17: no _nextTask call of a Worker or of the Cleaner that has returned (with
\* a snapshot, on idle timeout, on cancellation or on a query error) has left
\* its store listener, its token registration or its idle timer active
C17_NextTaskReleasesAll == leaks = {}

\* _nextTask of id returns as `how` somewhere in the step just taken
Returns(how, id) == \E i \in DOMAIN log' : log'[i] = [op |-> how, id |-> id]

C19_IdleTimeoutPollsAgain ==
  [][\A w \in WorkerIds :
       /\ Returns("leave", w) => (cancelled' \/ Returns("rejected", w))
       /\ (IdleTimeout(w) /\ ~cancelled) =>
            ~Returns("leave", w) /\ wpc'[w] = "polling"]_vars

\* C19 as amended: a Worker calls leave only after its _nextTask resolved to
\* void or rejected; it resolves to void only when the pool's token is
\* cancelled or the idle timeout expired; and the expiry of the idle timeout
\* on a running pool makes that Worker leave, the token staying as it is
C19_StopsOnVoidOrError ==
  [][\A w \in WorkerIds :
       /\ Returns("leave", w) => (Returns("void", w) \/ Returns("rejected", w))
       /\ Returns("void", w) => (cancelled' \/ IdleTimeout(w))
       /\ (IdleTimeout(w) /\ ~cancelled) =>
            /\ log'[1] = [op |-> "void", id |-> w]
            /\ log'[2] = [op |-> "leave", id |-> w]
            /\ ~cancelled']_vars

C19_Witness ==
  /\ ~cancelled /\ Len(log) >= 2
  /\ log[1].op = "void" /\ log[1].id \in WorkerIds
  /\ log[2] = [op |-> "leave", id |-> log[1].id]

\* the step just taken cancels the pool's token
Cancels == ~cancelled /\ cancelled'

\* C20: for the timer(delay, token) of the Cleaner: a cancellation of the
\* token while the timer is pending clears the delay and rejects the timer,
\* and the expiry callback never runs on a cancelled token; the expiry of the
\* delay unregisters the token callback, and a cancellation after that does
\* nothing to the timer; the delay and the callback are held only while the
\* Cleaner waits for the timer
C20_TimerReleased ==
  /\ [][/\ (Cancels /\ rtimer.armed) =>
             rtimer' = TimerIdle /\ Returns("timerCancelled", CleanerId)
        /\ CleanerTimer => ~cancelled /\ cpc = "delaying" /\ rtimer' = TimerIdle
        /\ (Cancels /\ ~rtimer.registered) =>
             rtimer' = rtimer /\ ~Returns("timerCancelled", CleanerId)]_vars
  /\ [](/\ rtimer.armed <=> rtimer.registered
        /\ rtimer.armed <=> cpc = "delaying")

C20_Witness ==
  /\ cancelled /\ rtimer = TimerIdle /\ cpc = "left"
  /\ \E i \in DOMAIN log : log[i] = [op |-> "timerCancelled", id |-> CleanerId]
  /\ \E k \in Keys : Claimed(k)

\* C21: the promise of timer(delay, token) settles once and keeps its outcome;
\* it resolves only when the delay has elapsed and the token is not cancelled,
\* and it does so when the delay expires on a pending promise; it rejects only
\* on a cancelled token, at the call if the token is cancelled already; and it
\* is never pending while the token is cancelled
C21_TimerSettlesOnce ==
  /\ [][/\ ptimer.promise \in {"resolved", "rejected"}
             => ptimer'.promise = ptimer.promise
        /\ (ptimer.promise # "resolved" /\ ptimer'.promise = "resolved")
             => ptimer.promise = "pending" /\ now >= ptimer.due /\ ~Requested(source)
        /\ (TimerExpires /\ ptimer.promise = "pending") => ptimer'.promise = "resolved"
        /\ (ptimer.promise # "rejected" /\ ptimer'.promise = "rejected")
             => Requested(source')
        /\ ((\E d \in 0..MaxDelay : CallTimer(d)) /\ Requested(source))
             => ptimer'.promise = "rejected"]_vars
  /\ [](Requested(source) => ptimer.promise # "pending")
  /\ [](ptimer.promise = "pending" => ptimer.t.armed)

C21_Witness ==
  /\ ptimer.promise = "rejected" /\ ptimer.calls = 2 /\ ptimer.t = TimerIdle
  /\ Requested(source) /\ linkedCancelled

\* closed() has been called: its promise is resolved or its handler subscribed
ClosedCalled ==
  resolved > 0 \/ \E i \in DOMAIN listeners : listeners[i] = "closed"

\* C22: the promise of closed() is resolved as soon as isClosed() holds,
\* whether the last id left after the cancellation or the token was cancelled
\* on an empty pool, at once if isClosed() holds at the call, and it is never
\* resolved in a state in which isClosed() is false.
C22_ClosedResolvesWhenClosed ==
  /\ [](ClosedCalled /\ IsClosed(Ctx) => resolved = 1)
  /\ [][resolved' > resolved => IsClosed(Ctx)']_vars

\* the ids that entered and have not left, and those whose last call is enter
\* or waiting
Entered == {id \in WorkerIds : wpc[id] # "none"}
Idling == {id \in WorkerIds : wpc[id] \in {"enter", "waiting"}}

\* C23: for ids that call enter, waiting, working and leave in the order of a
\* Worker, size().pool is the number of ids that entered and have not left,
\* size().idle the number of those whose last call is enter or waiting,
\* isActive() holds iff pool > 0 and idle < pool, isClosed() iff the token is
\* cancelled and pool = 0, and a call for an id changes the entry of no other id.
C23_Bookkeeping ==
  /\ [](/\ SizeOf(Ctx).pool = Cardinality(Entered)
        /\ SizeOf(Ctx).idle = Cardinality(Idling)
        /\ DOMAIN pool = Entered /\ DOMAIN idle = Entered
        /\ IsActive(Ctx) <=> (Cardinality(Entered) > 0
                               /\ Cardinality(Idling) < Cardinality(Entered))
        /\ IsClosed(Ctx) <=> (cancelled /\ Cardinality(Entered) = 0))
  /\ [][\A id \in WorkerIds : wpc'[id] = wpc[id] =>
          /\ id \in DOMAIN pool <=> id \in DOMAIN pool'
          /\ id \in DOMAIN pool => pool'[id] = pool[id] /\ idle'[id] = idle[id]]_vars

\* C23 witness: two ids in the pool, one of them working, after another left
C23_Witness ==
  /\ Cardinality(Entered) = 2 /\ Cardinality(Idling) = 1
  /\ IsActive(Ctx) /\ ~IsClosed(Ctx) /\ cancelled
  /\ Len(log) > 0 /\ log[1].op = "leave"

\* C24: while the Context is closed (token cancelled, pool empty) no handler is
\* subscribed, a call made then runs no handler, and subscribe() adds none.
C24_SubscriptionsFrozen ==
  /\ [](IsClosed(Ctx) => listeners = <<>>)
  /\ [][IsClosed(Ctx) => notes' = <<>>]_vars
  /\ [][(IsClosed(Ctx) /\ CtxSubscribe) => listeners' = listeners]_vars

\* C25: the step that cancels the caller's token cancels the pool's token, and
\* the pool then shuts down (closed() resolves on an empty pool); a failure of
\* the Cleaner cancels the pool's token and shuts the pool down too, and leaves
\* the caller's token as it was: only the caller cancels it.
C25_LinkedCancellation ==
  /\ [][Cancel => callerCancelled' /\ cancelled']_vars
  /\ [](callerCancelled => cancelled)
  /\ callerCancelled ~> (IsClosed(Ctx) /\ resolved = 1)
  /\ [][(CleanerTxError \/ CleanerQueryError)
          => cancelled' /\ callerCancelled' = callerCancelled]_vars
  /\ [][callerCancelled' # callerCancelled => Cancel]_vars
  /\ (cancelled /\ ~callerCancelled) ~> (IsClosed(Ctx) /\ resolved = 1)

\* C25 witness: the pool has shut down after the caller's cancel, which
\* stopped a Cleaner that never failed
C25_Witness ==
  /\ callerCancelled /\ cancelled /\ IsClosed(Ctx) /\ resolved = 1
  /\ cpc = "left" /\ clog = "none"

\* C26: the token of a TimedTokenSource is cancelled by the expiry of its
\* delay, by the cancellation of a linked token or by cancel(), whichever
\* comes first on the open source, and by nothing else; cancel() and close()
\* clear the timeout, which is never set again and fires only while set; a
\* source closed before it was cancelled is never cancelled; a cancelled token
\* stays cancelled.
C26_TimedTokenSource ==
  /\ [][(source.state = "open" /\ (SourceExpires \/ LinkedCancel \/ CallCancel))
          => Requested(source')]_vars
  /\ [][(~Requested(source) /\ Requested(source'))
          => \/ SourceExpires \/ LinkedCancel \/ CallCancel
             \/ (linkedCancelled /\ \E d \in 0..MaxDelay : NewSource(d))]_vars
  /\ [][(CallCancel \/ CallClose) => ~source'.timer]_vars
  /\ [][(source.state # "none" /\ ~source.timer) => ~source'.timer]_vars
  /\ [][SourceExpires => source.timer /\ now >= source.due]_vars
  /\ [][source.state = "closed" => source'.state = "closed"]_vars
  /\ [][Requested(source) => Requested(source')]_vars

\* C26 witness: a source closed before its delay elapsed, not cancelled after
\* the delay elapsed and the linked token was cancelled
C26_Witness ==
  /\ source.state = "closed" /\ ~source.timer
  /\ now > source.due /\ source.due > 0 /\ linkedCancelled

\* C27: a _process call calls the processor once, with the key and the payload
\* it was given and the token of a TimedTokenSource made in that call, set to
\* expire after the job time out; when the processor has resolved, rejected or
\* thrown, the source has been closed once and its timeout is not set.
C27_ProcessClosesSource ==
  /\ [][\A key \in JobKeys, task \in Payloads, d \in 0..MaxDelay, throws \in BOOLEAN :
          JobProcess(key, task, d, throws) =>
            /\ job'.calls = job.calls + 1
            /\ job'.key = key /\ job'.payload = task
            /\ job'.sources = job.sources + 1 /\ job'.token = job'.sources
            /\ IF throws
                 THEN job'.state = "threw"
                 ELSE /\ job'.state = "running"
                      /\ source' = [state |-> "open", timer |-> TRUE, due |-> now + d]]_vars
  /\ [][job'.calls # job.calls
          => \E key \in JobKeys, task \in Payloads, d \in 0..MaxDelay, throws \in BOOLEAN :
                 JobProcess(key, task, d, throws)]_vars
  /\ [](job.state = "running" => job.closes = job.calls - 1)
  /\ [](job.state \in Settled
          => job.closes = job.calls /\ ~source.timer /\ source.state # "open")

\* C27 witness: a second call, on a second source, whose processor rejected
\* after the job time out had cancelled the token
C27_Witness ==
  /\ job.calls = 2 /\ job.state = "rejected" /\ job.closes = 2 /\ job.token = 2
  /\ source.state = "cancelled" /\ ~source.timer /\ now > 0

\* a task nobody holds: not started, no claim time
Unheld(data) == data # <<>> /\ data[1].started = FALSE /\ data[1].startedAt = NoTime

\* C28: on an existing task the reset transaction writes started = false and
\* startedAt = null and keeps every other field; on a task that is already
\* unclaimed it writes the same task, and a second reset equals the first.
C28_ResetEffect ==
  /\ [][(ResetTx /\ ref.data # <<>>) =>
          /\ ref'.data = <<[ref.data[1] EXCEPT !.started = FALSE, !.startedAt = NoTime]>>
          /\ ref'.data[1].payload = ref.data[1].payload
          /\ DOMAIN ref'.data[1] = DOMAIN ref.data[1]]_vars
  /\ [][(ResetTx /\ Unheld(ref.data)) => ref'.data = ref.data]_vars
  /\ [](ResetHandler(ResetHandler(ref.data)) = ResetHandler(ref.data))
  /\ [][ResetTx => Unheld(ref'.data) \/ ref'.data = <<>>]_vars

\* C28 witness: a claimed task with a payload, after a second reset that
\* found it unclaimed
C28_Witness ==
  /\ ref.runs = 2 /\ ref.before # <<>> /\ ref.before[1].started
  /\ ref.before[1].payload = "data" /\ ref.before[1].startedAt = MaxTime
  /\ ref.data = <<Node(FALSE, NoTime, "data")>>

\* the tasks of a subject in outcomes/queue
TasksOf(s) == {t \in TaskIds : provider.queue[t] = s}

\* the queue holds one task of s at most, the one outcomeTask names
OnePending(s) ==
  /\ Cardinality(TasksOf(s)) <= 1
  /\ \A t \in TasksOf(s) : provider.users[s].outcomeTask = t

\* C29: in every state, for each subject the outcome queue holds at most one
\* task, and its id is the subject's outcomeTask, also when two push calls for
\* the subject run at the same time.
C29_OnePendingTask == \A s \in Subjects : OnePending(s)

\* C29, amended: the same for each subject for which no push call started
\* while another push call for it was under way.
C29_OnePendingUnlessRaced ==
  \A s \in Subjects : ~provider.raced[s] => OnePending(s)

\* C29 witness: a second push for a subject has replaced the task of the
\* first, which nobody had processed, and no two pushes for it overlapped
C29_Witness ==
  \E s \in Subjects :
    /\ provider.made = <<s, s>> /\ ~provider.raced[s]
    /\ TasksOf(s) = {2} /\ provider.users[s].outcomeTask = 2
    /\ \A p \in Pushers : provider.push[p].pc = "idle"

\* C30: request(taskId, task) gives a request only if the task's user exists,
\* has a sourceDid and records taskId as its outcomeTask when request() reads
\* it; for a task that another replaced, or without such a user, it gives none.
C30_RequestOnlyForCurrentTask ==
  [][\A t \in TaskIds : CallRequest(t) =>
       LET u == provider.users[provider.made[t]]
       IN  /\ provider'.last.taskId = t
           /\ provider'.last.request <=>
                (~UserNull(u) /\ u.sourceDid /\ u.outcomeTask = t)
           /\ (u.outcomeTask # t \/ ~u.sourceDid) => ~provider'.last.request]_vars

\* C30 witness: two tasks of a subject are in the queue after overlapping
\* pushes, and request() for the one that is not its outcomeTask gave nothing
C30_Witness ==
  \E s \in Subjects :
    /\ provider.last = [taskId |-> 1, subject |-> s, request |-> FALSE]
    /\ provider.users[s].outcomeTask = 2 /\ provider.users[s].sourceDid
    /\ provider.queue[1] = s /\ provider.queue[2] = s

\* two Workers hold the snapshot of the same task
SameSnapshot(v, w) == v # w /\ wsnap[v] # NoKey /\ wsnap[v] = wsnap[w]

\* C31: the claim is a write that does not look at the node: whatever the
\* node holds, also the claim of another Worker, it leaves started = true and
\* startedAt = the time of the write, and the Worker goes on to call the
\* processor; nothing keeps a second Worker that got the same task from it.
C31_ClaimIsUnconditional ==
  /\ [][\A w \in WorkerIds : ClaimOk(w) =>
          /\ tasks'[wsnap[w]] # <<>>
          /\ tasks'[wsnap[w]][1].started /\ tasks'[wsnap[w]][1].startedAt = now
          /\ wpc'[w] = "processing"]_vars
  /\ [][\A v, w \in WorkerIds :
          (SameSnapshot(v, w) /\ wpc[v] = "processing" /\ ClaimOk(w))
            => wpc'[v] = "processing" /\ wpc'[w] = "processing"]_vars

\* C31 witness: two Workers got the same task as unclaimed, both wrote the
\* claim, the second later than the first, and both called the processor
C31_Witness ==
  \E v, w \in WorkerIds :
    /\ SameSnapshot(v, w)
    /\ wpc[v] = "processing" /\ wpc[w] = "processing"
    /\ wlog[v] = <<"claimIssued", "claimed", "invoked">> /\ wlog[w] = wlog[v]
    /\ tasks[wsnap[w]] = <<Node(TRUE, 1, "data")>>

\* C32: for the claimed task the Cleaner receives, with delay = startedAt +
\* retry time out - now: if delay <= 0 the reset transaction is started in the
\* same step and no timer is set; if delay > 0 the Cleaner sets a timer for
\* delay and waits.
C32_ResetAtOnceWhenDue ==
  [][CleanerReceive =>
       LET delay == Delay(tasks[FirstStarted][1])
       IN  IF delay <= 0
             THEN cpc' = "resetting" /\ ~rtimer'.armed
             ELSE cpc' = "delaying" /\ rtimer'.armed /\ cdeadline' = now + delay]_vars

\* C33: the expiry of the job's source changes nothing of the Worker: no
\* remove, no call of _run, the processor still pending; the Worker leaves
\* the processing of a task only in the step in which the processor's promise
\* settles, and calls remove only when it resolved.
C33_TimeoutIsCooperative ==
  /\ [][SourceExpires => job' = job]_vars
  /\ [][(job.run = "processing" /\ job'.run # "processing")
          => \E how \in {"resolved", "rejected"} : ProcessorSettles(how)]_vars
  /\ [][job'.removes # job.removes
          => ProcessorSettles("resolved") /\ job'.removes = job.removes + 1]_vars
  /\ [][job'.polls # job.polls => job'.state \in Settled]_vars

\* C33 witness: the job time out has expired and cancelled the token, and the
\* Worker is still processing the task: nothing removed, no new poll
C33_Witness ==
  /\ job.run = "processing" /\ job.state = "running"
  /\ source.state = "cancelled" /\ ~source.timer /\ now > source.due
  /\ job.removes = 0 /\ job.polls = 0

\* C34: as long as the pool's token is not cancelled, after every step the
\* Context counts at least one Worker, which is alive; in particular the step
\* in which the only Worker leaves, on idle time out or on a query error,
\* enters a new one.
C34_NeverBelowOneWorker ==
  /\ [](~cancelled => SizeOf(Ctx).pool >= 1 /\ \E w \in WorkerIds : Alive(w))
  /\ [][\A w \in WorkerIds :
          ((IdleTimeout(w) \/ WorkerQueryError(w)) /\ SizeOf(Ctx).pool = 1)
            => /\ SizeOf(Ctx)'.pool = 1
               /\ \E i \in DOMAIN log' : log'[i].op = "enter"]_vars

\* C34 witness: the only Worker left on idle time out and the handler of
\* create() entered another in the same step
C34_Witness ==
  /\ ~cancelled /\ size >= 1 /\ SizeOf(Ctx).pool = 1 /\ Len(log) >= 3
  /\ log[1].op = "void" /\ log[2].op = "leave" /\ log[3].op = "enter"
  /\ notes # <<>> /\ notes[Len(notes)] = [pool |-> 0, idle |-> 0, started |-> 1]

\* C35: isClosed() is terminal: no call of the Context and no operation on its
\* token takes a Context for which isClosed() is true to one for which it is
\* false.
C35_ClosedIsTerminal == [][IsClosed(Ctx) => IsClosed(Ctx)']_vars

\* the ids the Context counts in its pool
AliveIds(c) == {id \in DOMAIN c.pool : c.pool[id] = TRUE}

\* C36: waiting(id) and working(id) leave the set of the ids in the pool as it
\* was, for every id and every state of the Context: an id that never entered
\* or that left is not added by them.
C36_WaitingWorkingKeepPool ==
  [][\A id \in WorkerIds :
       (AnyWaiting(id) \/ AnyWorking(id)) => AliveIds(Ctx)' = AliveIds(Ctx)]_vars

\* C37: no queue operation creates a task node: after a Worker's claim write,
\* its remove, or the Cleaner's reset transaction, every task key that exists
\* existed just before the step.
C37_NoOperationCreatesTask ==
  [][((\E w \in WorkerIds : ClaimOk(w) \/ CompleteOk(w)) \/ CleanerTx)
       => \A k \in Keys : Exists(k)' => Exists(k)]_vars

\* C38: once the pool's token is cancelled no Worker is started: a step that
\* ends with the token cancelled, the step of the cancellation included,
\* records no enter and makes no Worker alive, whatever the Workers and the
\* Cleaner do in it.
C38_NoWorkerAfterCancel ==
  [][cancelled' =>
       /\ \A i \in DOMAIN log' : log'[i].op # "enter"
       /\ \A w \in WorkerIds : Alive(w)' => Alive(w)]_vars

\* C38 witness: after the cancellation the last Worker finished its task,
\* polled and left: the Context broadcast an empty pool below its size, and
\* nothing entered
C38_Witness ==
  /\ cancelled /\ size >= 1 /\ SizeOf(Ctx).pool = 0 /\ SizeOf(Ctx).idle = 0
  /\ \E i, j \in DOMAIN log :
       i < j /\ log[i].op = "waiting" /\ log[j].op = "leave" /\ log[i].id = log[j].id
  /\ \A i \in DOMAIN log : log[i].op # "enter"

\* C39: a cancellation of the pool's token while the Cleaner waits for the
\* retry delay of a task abandons that reset: in the step of the cancellation
\* the timer is cleared and rejected, the Cleaner's next _nextTask returns void
\* and the Cleaner leaves without a rejection, no transaction is started and
\* the store is as it was, so that a task that was claimed stays claimed; and a
\* Cleaner that left runs no transaction and no timer afterwards.
C39_CancelAbandonsReset ==
  /\ [][(Cancels /\ cpc = "delaying") =>
          /\ cpc' = "left" /\ rtimer' = TimerIdle
          /\ tasks' = tasks /\ clog' = clog /\ txData' = <<>>
          /\ \E i, j \in DOMAIN log' :
               /\ i < j
               /\ log'[i] = [op |-> "timerCancelled", id |-> CleanerId]
               /\ log'[j] = [op |-> "void", id |-> CleanerId]
          /\ \A i \in DOMAIN log' : log'[i] # [op |-> "rejected", id |-> CleanerId]]_vars
  /\ [][cpc = "left" => cpc' = "left" /\ ~CleanerTx /\ ~CleanerTimer]_vars

\* C39 witness: the caller cancelled while the Cleaner waited for a delay that
\* had not expired; the Cleaner left and the task is still claimed
C39_Witness ==
  /\ callerCancelled /\ cancelled /\ cpc = "left" /\ clog = "none"
  /\ \E i \in DOMAIN log : log[i] = [op |-> "timerCancelled", id |-> CleanerId]
  /\ \A i \in DOMAIN log : log[i].op # "rejected"
  /\ \E k \in Keys : Claimed(k) /\ Delay(tasks[k][1]) > 0

\* C40: the source that _process makes for the job's deadline is not linked to
\* the pool's token: the cancellation of the pool leaves that source as it is
\* and a Worker that is processing stays in its processing; the deadline token
\* becomes cancelled only by the expiry of the job time out; and the Worker
\* leaves only with its processor settled (or never called).
C40_DeadlineNotLinkedToPool ==
  /\ [][PoolCancel => /\ source' = source
                      /\ (job.run = "processing" =>
                            job'.run = "processing" /\ job'.state = "running")]_vars
  /\ [][(source.state # "cancelled" /\ source'.state = "cancelled")
          => SourceExpires]_vars
  /\ [][(job.run # "left" /\ job'.run = "left") => job'.state # "running"]_vars
  /\ [](job.run = "left" => linkedCancelled)

\* C40 witness: the pool was cancelled while the processor ran; the deadline
\* token is not cancelled, its time out is still set, and the Worker has not left
C40_Witness ==
  /\ linkedCancelled /\ job.run = "processing" /\ job.state = "running"
  /\ source.state = "open" /\ source.timer /\ now < source.due

====
